---- MODULE Spec2Model ----
(***************************************************************************)
(* Model of backend/controller/github.py: the GitHub "issues" webhook      *)
(* handler github_webhook_issues and save_issue_to_database, together with *)
(* the keyed issue table, the payload mapper and the field diff they call. *)
(***************************************************************************)
EXTENDS Integers, Sequences, FiniteSets, TLC

\* ------------------------------------------------------------------ bounds
\* Longest label list an inbound payload carries.
MaxLabels == 1

\* ------------------------------------------------------------- input sets
REPLY_LABEL == "needs-reply"
LabelNames == {REPLY_LABEL, "bug"}
IssueIds == {101, 102}
Stamps == {"2024-01-01", "2024-06-01"}
Titles == {"crash", "crash on start"}
Actions == {"opened", "labeled", "edited"}
ConcActions == {"opened", "labeled"}
Handlers == {1, 2}

LabelDescriptors == [name : LabelNames]
LabelLists == UNION {[1..n -> LabelDescriptors] : n \in 0..MaxLabels}

\* The nested issue object of a payload; a malformed one lacks its id.
PayloadIssues == [id : IssueIds, created_at : Stamps, title : Titles, labels : LabelLists]
PayloadIssuesNoId == [created_at : {"2024-01-01"}, title : {"crash"}, labels : {<<>>}]
Payloads == [action : Actions, issue : PayloadIssues]
BadPayloads == [action : Actions, issue : PayloadIssuesNoId]
ConcPayloads == {p \in Payloads : p.action \in ConcActions /\ p.issue.created_at = "2024-01-01"}

\* ------------------------------------------------------------ Issue model
Fields == {"github_issue_id", "created_at", "title", "labels"}
PROTECTED_FIELDS == {"github_issue_id", "created_at"}

NoIssue == [github_issue_id |-> 0, created_at |-> "", title |-> "", labels |-> <<>>]

\* Issue.from_webhook_payload: raises when the issue id is absent.
Malformed(p) == "id" \notin DOMAIN p.issue

from_webhook_payload(p) ==
    [github_issue_id |-> p.issue.id,
     created_at |-> p.issue.created_at,
     title |-> p.issue.title,
     labels |-> p.issue.labels]

get_labels_list(i) == i.labels

\* any(label.get('name') == config.REPLY_LABEL for label in labels_list)
HasReplyLabel(labels_list) ==
    \E k \in 1..Len(labels_list) : labels_list[k].name = REPLY_LABEL

\* diff_and_get_changed_fields: the non-protected fields whose values differ,
\* with the incoming values.
diff_and_get_changed_fields(old, new) ==
    [f \in {g \in Fields \ PROTECTED_FIELDS : old[g] # new[g]} |-> new[f]]

EmptyMap == [f \in {} |-> ""]

\* ------------------------------------------------------------------ table
\* The issue table is a set of rows; github_issue_id is its primary key.
TableGet(t, id) == {r \in t : r.github_issue_id = id}

HasKey(t, id) == TableGet(t, id) # {}

TableInsert(t, i) == t \cup {i}

Patch(r, m) ==
    [github_issue_id |-> IF "github_issue_id" \in DOMAIN m THEN m["github_issue_id"] ELSE r.github_issue_id,
     created_at |-> IF "created_at" \in DOMAIN m THEN m["created_at"] ELSE r.created_at,
     title |-> IF "title" \in DOMAIN m THEN m["title"] ELSE r.title,
     labels |-> IF "labels" \in DOMAIN m THEN m["labels"] ELSE r.labels]

TableUpdate(t, m, id) ==
    {IF r.github_issue_id = id THEN Patch(r, m) ELSE r : r \in t}

TheRow(s) == CHOOSE r \in s : TRUE

\* -------------------------------------------------- save_issue_to_database
\* The 'opened' branch as it would be if it replied to any labelled issue.
OpenedShouldReplyAnyLabel(i) == i.labels # <<>>

\* Lines 101-103: the reply decision of the 'opened' branch.
OpenedShouldReply(i) ==
    HasReplyLabel(IF i.labels # <<>> THEN get_labels_list(i) ELSE <<>>)

\* The update branch as it would be if any change of the label's presence
\* (its removal too) triggered a reply.
UpdateShouldReplyOnChange(found, i) ==
    HasReplyLabel(i.labels) # (found # {} /\ HasReplyLabel(TheRow(found).labels))

\* The update branch as it would be without the look at the stored labels.
UpdateShouldReplyIfPresent(found, i) == HasReplyLabel(i.labels)

\* Lines 109-116: the reply decision of the update branch; found is the
\* result of table.get, a set holding the row or nothing.
UpdateShouldReply(found, i) ==
    LET current_has_reply == i.labels # <<>> /\ HasReplyLabel(get_labels_list(i))
        db_has_reply == found # {} /\ TheRow(found).labels # <<>>
                        /\ HasReplyLabel(get_labels_list(TheRow(found)))
    IN current_has_reply /\ ~db_has_reply

\* The update as it would be if it wrote every non-protected field back.
UpdateArgumentEveryField(old, new) == [f \in Fields \ PROTECTED_FIELDS |-> new[f]]

\* The update as it would be if the diff looked at protected fields too.
UpdateArgumentUnprotected(old, new) == [f \in {g \in Fields : old[g] # new[g]} |-> new[f]]

\* The update as it would be if the diff skipped the list-valued fields.
UpdateArgumentTitleOnly(old, new) == [f \in {g \in {"title"} : old[g] # new[g]} |-> new[f]]

\* Lines 122-131: the field map handed to table.update.
UpdateArgument(old, new) == diff_and_get_changed_fields(old, new)

\* ------------------------------------------------------------------ state
VARIABLES
    table,           \* rows of the issue table
    table0,          \* the table when the concurrent invocations started
    pc,              \* position of each handler invocation
    issue,           \* the mapped Issue of the event in hand
    action,          \* data.get('action')
    before,          \* the stored row for the event's id when the event arrived
    existing_issue,  \* result of table.get (line 106)
    changed_fields,  \* the map passed to table.update (line 129)
    should_reply,    \* line 92
    saved,           \* save_issue_to_database returned normally
    similar_issues,  \* whether line 58 bound the local
    calls,           \* collaborator calls of this event, in order
    raised,          \* exceptions raised during this event, by origin
    outcome,         \* the result record returned by the handler
    redelivered,     \* the event in hand repeats the previous one
    seen             \* per issue id, whether the last event handled for it
                     \* carried the reply label ("none": no event yet)

vars == <<table, table0, pc, issue, action, before, existing_issue, changed_fields,
          should_reply, saved, similar_issues, calls, raised, outcome, redelivered,
          seen>>

NoOutcome == [status |-> "none", message |-> ""]
Skipped == [status |-> "success", message |-> "Issue skipped (not marked for reply)"]
Processed == [status |-> "success", message |-> "Issues webhook processed"]
Failed == [status |-> "error", message |-> "exception"]

Init ==
    /\ table = {}
    /\ table0 = {}
    /\ pc = [h \in Handlers |-> "idle"]
    /\ issue = [h \in Handlers |-> NoIssue]
    /\ action = [h \in Handlers |-> "unknown"]
    /\ before = [h \in Handlers |-> {}]
    /\ existing_issue = [h \in Handlers |-> {}]
    /\ changed_fields = [h \in Handlers |-> EmptyMap]
    /\ should_reply = [h \in Handlers |-> FALSE]
    /\ saved = [h \in Handlers |-> FALSE]
    /\ similar_issues = [h \in Handlers |-> "unbound"]
    /\ calls = [h \in Handlers |-> <<>>]
    /\ raised = [h \in Handlers |-> {}]
    /\ outcome = [h \in Handlers |-> NoOutcome]
    /\ redelivered = [h \in Handlers |-> FALSE]
    /\ seen = [id \in IssueIds |-> "none"]

\* ------------------------------------------------------- handler: lines 27-48
\* A fresh invocation: locals are unset, nothing called, nothing returned.
Enter(h, i, a, redo, exc, out) ==
    /\ issue' = [issue EXCEPT ![h] = i]
    /\ action' = [action EXCEPT ![h] = a]
    /\ before' = [before EXCEPT ![h] = TableGet(table, i.github_issue_id)]
    /\ existing_issue' = [existing_issue EXCEPT ![h] = {}]
    /\ changed_fields' = [changed_fields EXCEPT ![h] = EmptyMap]
    /\ should_reply' = [should_reply EXCEPT ![h] = FALSE]
    /\ saved' = [saved EXCEPT ![h] = FALSE]
    /\ similar_issues' = [similar_issues EXCEPT ![h] = "unbound"]
    /\ calls' = [calls EXCEPT ![h] = <<>>]
    /\ raised' = [raised EXCEPT ![h] = exc]
    /\ outcome' = [outcome EXCEPT ![h] = out]
    /\ redelivered' = [redelivered EXCEPT ![h] = redo]
    /\ seen' = IF pc[h] = "done" /\ issue[h] # NoIssue /\ "table_io" \notin raised[h]
               THEN [seen EXCEPT ![issue[h].github_issue_id] =
                        IF HasReplyLabel(issue[h].labels) THEN "present" ELSE "absent"]
               ELSE seen
    /\ UNCHANGED <<table, table0>>

\* The handler maps the payload and goes on to save_issue_to_database.
Receive(h) ==
    /\ pc[h] = "idle"
    /\ \E p \in Payloads :
        /\ ~Malformed(p)
        /\ Enter(h, from_webhook_payload(p), p.action, FALSE, {}, NoOutcome)
    /\ pc' = [pc EXCEPT ![h] = "save"]

\* The same event is delivered again after its persistence succeeded.
Redeliver(h) ==
    /\ pc[h] = "done"
    /\ saved[h]
    /\ Enter(h, issue[h], action[h], TRUE, {}, NoOutcome)
    /\ pc' = [pc EXCEPT ![h] = "save"]

\* The mapper's failure as it would be if the handler went on to save.
RejectPayloadGoesOn(h) ==
    /\ pc[h] = "idle"
    /\ \E p \in BadPayloads :
        /\ Malformed(p)
        /\ Enter(h, NoIssue, p.action, FALSE, {"mapper"}, NoOutcome)
    /\ pc' = [pc EXCEPT ![h] = "save"]

\* from_webhook_payload raises: caught at line 70, error outcome.
RejectPayload(h) ==
    /\ pc[h] = "idle"
    /\ \E p \in BadPayloads :
        /\ Malformed(p)
        /\ Enter(h, NoIssue, "unknown", FALSE, {"mapper"}, Failed)
    /\ pc' = [pc EXCEPT ![h] = "done"]

\* -------------------------------------------- save_issue_to_database: steps
\* The handler as it would be without the early return of lines 51-53.
ReturnAlwaysSearch(h, reply) ==
    /\ should_reply' = [should_reply EXCEPT ![h] = reply]
    /\ saved' = [saved EXCEPT ![h] = TRUE]
    /\ pc' = [pc EXCEPT ![h] = "search"]
    /\ outcome' = [outcome EXCEPT ![h] = NoOutcome]

\* Lines 144 and 51-53: save returns reply; the handler skips or goes on.
Return(h, reply) ==
    /\ should_reply' = [should_reply EXCEPT ![h] = reply]
    /\ saved' = [saved EXCEPT ![h] = TRUE]
    /\ pc' = [pc EXCEPT ![h] = IF reply THEN "search" ELSE "done"]
    /\ outcome' = [outcome EXCEPT ![h] = IF reply THEN NoOutcome ELSE Skipped]

\* A table failure as it would be if save logged it and returned normally.
RaiseSwallowed(h, op, exc) ==
    /\ calls' = [calls EXCEPT ![h] = Append(@, op)]
    /\ raised' = [raised EXCEPT ![h] = @ \cup {exc}]
    /\ saved' = [saved EXCEPT ![h] = TRUE]
    /\ should_reply' = [should_reply EXCEPT ![h] = TRUE]
    /\ pc' = [pc EXCEPT ![h] = "search"]
    /\ UNCHANGED <<table, table0, issue, action, before, existing_issue,
                   similar_issues, outcome, redelivered, seen>>

\* A table failure as it would be without the outer except of lines 70-72:
\* the exception leaves the handler and no result record is returned.
RaiseEscapes(h, op, exc) ==
    /\ calls' = [calls EXCEPT ![h] = Append(@, op)]
    /\ raised' = [raised EXCEPT ![h] = @ \cup {exc}]
    /\ pc' = [pc EXCEPT ![h] = "done"]
    /\ UNCHANGED <<table, table0, issue, action, before, existing_issue,
                   should_reply, saved, similar_issues, outcome, redelivered, seen>>

\* Lines 140-142 and 70-72: a table call raises; save re-raises and the
\* handler returns the error outcome. The caller says what changed_fields is.
Raise(h, op, exc) ==
    /\ calls' = [calls EXCEPT ![h] = Append(@, op)]
    /\ raised' = [raised EXCEPT ![h] = @ \cup {exc}]
    /\ outcome' = [outcome EXCEPT ![h] = Failed]
    /\ pc' = [pc EXCEPT ![h] = "done"]
    /\ UNCHANGED <<table, table0, issue, action, before, existing_issue,
                   should_reply, saved, similar_issues, redelivered, seen>>

\* Lines 95-103: 'opened' inserts the issue and decides on its labels.
InsertOpened(h) ==
    /\ pc[h] = "save"
    /\ action[h] = "opened"
    /\ ~HasKey(table, issue[h].github_issue_id)
    /\ table' = TableInsert(table, issue[h])
    /\ calls' = [calls EXCEPT ![h] = Append(@, "insert")]
    /\ Return(h, OpenedShouldReply(issue[h]))
    /\ UNCHANGED <<table0, issue, action, before, existing_issue, changed_fields,
                   similar_issues, raised, redelivered, seen>>

\* Line 97 on an id the table already holds: the primary key rejects the row.
InsertOpenedDuplicate(h) ==
    /\ pc[h] = "save"
    /\ action[h] = "opened"
    /\ HasKey(table, issue[h].github_issue_id)
    /\ UNCHANGED changed_fields
    /\ Raise(h, "insert", "duplicate")

\* Line 106: look the issue up.
GetExisting(h) ==
    /\ pc[h] = "save"
    /\ action[h] # "opened"
    /\ existing_issue' = [existing_issue EXCEPT ![h] = TableGet(table, issue[h].github_issue_id)]
    /\ calls' = [calls EXCEPT ![h] = Append(@, "get")]
    /\ pc' = [pc EXCEPT ![h] = "write"]
    /\ UNCHANGED <<table, table0, issue, action, before, changed_fields, should_reply,
                   saved, similar_issues, raised, outcome, redelivered, seen>>

\* The found branch as it would be without the test of line 124: table.update
\* is called with an empty map too.
UpdateExistingAlways(h) ==
    /\ pc[h] = "write"
    /\ existing_issue[h] # {}
    /\ LET m == UpdateArgument(TheRow(existing_issue[h]), issue[h])
       IN /\ changed_fields' = [changed_fields EXCEPT ![h] = m]
          /\ table' = TableUpdate(table, m, issue[h].github_issue_id)
          /\ calls' = [calls EXCEPT ![h] = Append(@, "update")]
    /\ Return(h, UpdateShouldReply(existing_issue[h], issue[h]))
    /\ UNCHANGED <<table0, issue, action, before, existing_issue, similar_issues,
                   raised, redelivered, seen>>

\* The found branch as it would be if it wrote field by field: one
\* table.update per changed field.
UpdateExistingPerField(h) ==
    /\ pc[h] = "write"
    /\ existing_issue[h] # {}
    /\ LET m == UpdateArgument(TheRow(existing_issue[h]), issue[h])
       IN /\ changed_fields' = [changed_fields EXCEPT ![h] = m]
          /\ table' = TableUpdate(table, m, issue[h].github_issue_id)
          /\ calls' = [calls EXCEPT ![h] =
                         @ \o [k \in 1..Cardinality(DOMAIN m) |-> "update"]]
    /\ Return(h, UpdateShouldReply(existing_issue[h], issue[h]))
    /\ UNCHANGED <<table0, issue, action, before, existing_issue, similar_issues,
                   raised, redelivered, seen>>

\* The found branch as it would be if table.update were given no key: every
\* row takes the changed fields.
UpdateExistingAllRows(h) ==
    /\ pc[h] = "write"
    /\ existing_issue[h] # {}
    /\ LET m == UpdateArgument(TheRow(existing_issue[h]), issue[h])
       IN /\ changed_fields' = [changed_fields EXCEPT ![h] = m]
          /\ IF DOMAIN m # {}
             THEN /\ table' = {Patch(r, m) : r \in table}
                  /\ calls' = [calls EXCEPT ![h] = Append(@, "update")]
             ELSE UNCHANGED <<table, calls>>
    /\ Return(h, UpdateShouldReply(existing_issue[h], issue[h]))
    /\ UNCHANGED <<table0, issue, action, before, existing_issue, similar_issues,
                   raised, redelivered, seen>>

\* Lines 108-134: the record was found; write the changed fields, if any.
UpdateExisting(h) ==
    /\ pc[h] = "write"
    /\ existing_issue[h] # {}
    /\ LET m == UpdateArgument(TheRow(existing_issue[h]), issue[h])
       IN /\ changed_fields' = [changed_fields EXCEPT ![h] = m]
          /\ IF DOMAIN m # {}
             THEN /\ table' = TableUpdate(table, m, issue[h].github_issue_id)
                  /\ calls' = [calls EXCEPT ![h] = Append(@, "update")]
             ELSE UNCHANGED <<table, calls>>
    /\ Return(h, UpdateShouldReply(existing_issue[h], issue[h]))
    /\ UNCHANGED <<table0, issue, action, before, existing_issue, similar_issues,
                   raised, redelivered, seen>>

\* The not-found branch as it would be if a late insert never asked for a reply.
InsertMissingNoReply(h) ==
    /\ pc[h] = "write"
    /\ existing_issue[h] = {}
    /\ ~HasKey(table, issue[h].github_issue_id)
    /\ table' = TableInsert(table, issue[h])
    /\ calls' = [calls EXCEPT ![h] = Append(@, "insert")]
    /\ Return(h, FALSE)
    /\ UNCHANGED <<table0, issue, action, before, existing_issue, changed_fields,
                   similar_issues, raised, redelivered, seen>>

\* Lines 108-116 and 135-138: not found; insert the issue.
InsertMissing(h) ==
    /\ pc[h] = "write"
    /\ existing_issue[h] = {}
    /\ ~HasKey(table, issue[h].github_issue_id)
    /\ table' = TableInsert(table, issue[h])
    /\ calls' = [calls EXCEPT ![h] = Append(@, "insert")]
    /\ Return(h, UpdateShouldReply(existing_issue[h], issue[h]))
    /\ UNCHANGED <<table0, issue, action, before, existing_issue, changed_fields,
                   similar_issues, raised, redelivered, seen>>

\* Line 137 after another invocation inserted the same id in between.
InsertMissingDuplicate(h) ==
    /\ pc[h] = "write"
    /\ existing_issue[h] = {}
    /\ HasKey(table, issue[h].github_issue_id)
    /\ UNCHANGED changed_fields
    /\ Raise(h, "insert", "duplicate")

\* Table I/O errors: the call raises and leaves the table as it was.
GetFails(h) ==
    /\ pc[h] = "save"
    /\ action[h] # "opened"
    /\ UNCHANGED changed_fields
    /\ Raise(h, "get", "table_io")

InsertFails(h) ==
    /\ \/ pc[h] = "save" /\ action[h] = "opened"
       \/ pc[h] = "write" /\ existing_issue[h] = {}
    /\ UNCHANGED changed_fields
    /\ Raise(h, "insert", "table_io")

\* Lines 122-131 and 140-142: the diff is computed and handed to table.update,
\* which raises.
UpdateFails(h) ==
    /\ pc[h] = "write"
    /\ existing_issue[h] # {}
    /\ LET m == UpdateArgument(TheRow(existing_issue[h]), issue[h])
       IN /\ DOMAIN m # {}
          /\ changed_fields' = [changed_fields EXCEPT ![h] = m]
    /\ Raise(h, "update", "table_io")

\* ------------------------------------------------------- handler: lines 55-74
LocalStep(h, next, out, made, excs) ==
    /\ pc' = [pc EXCEPT ![h] = next]
    /\ outcome' = [outcome EXCEPT ![h] = out]
    /\ calls' = [calls EXCEPT ![h] = @ \o made]
    /\ raised' = [raised EXCEPT ![h] = @ \cup excs]
    /\ UNCHANGED <<table, table0, issue, action, before, existing_issue, changed_fields,
                   should_reply, saved, redelivered, seen>>

\* Lines 56-59: the search returns and binds similar_issues.
SearchOk(h) ==
    /\ pc[h] = "search"
    /\ similar_issues' = [similar_issues EXCEPT ![h] = "bound"]
    /\ LocalStep(h, "comment", NoOutcome, <<"search">>, {})

\* Lines 58-62: the search raises; the inner except logs and goes on, and
\* similar_issues was never assigned.
SearchRaises(h) ==
    /\ pc[h] = "search"
    /\ UNCHANGED similar_issues
    /\ LocalStep(h, "comment", NoOutcome, <<"search">>, {"search"})

\* Line 67 reads similar_issues while it is unbound: UnboundLocalError,
\* caught by the outer except at line 70.
CommentUnbound(h) ==
    /\ pc[h] = "comment"
    /\ similar_issues[h] = "unbound"
    /\ UNCHANGED similar_issues
    /\ LocalStep(h, "done", Failed, <<>>, {"unbound_local"})

\* Line 67: should_send_comment says no; line 74.
CommentDeclined(h) ==
    /\ pc[h] = "comment"
    /\ similar_issues[h] = "bound"
    /\ UNCHANGED similar_issues
    /\ LocalStep(h, "done", Processed, <<"should_send_comment">>, {})

\* Lines 67-68 and 74: the comment is sent.
CommentSent(h) ==
    /\ pc[h] = "comment"
    /\ similar_issues[h] = "bound"
    /\ UNCHANGED similar_issues
    /\ LocalStep(h, "done", Processed, <<"should_send_comment", "send_issue_comment">>, {})

\* Line 67: should_send_comment raises inside the outer try.
ShouldSendRaises(h) ==
    /\ pc[h] = "comment"
    /\ similar_issues[h] = "bound"
    /\ UNCHANGED similar_issues
    /\ LocalStep(h, "done", Failed, <<"should_send_comment">>, {"should_send_comment"})

\* Line 68: send_issue_comment raises inside the outer try.
SendRaises(h) ==
    /\ pc[h] = "comment"
    /\ similar_issues[h] = "bound"
    /\ UNCHANGED similar_issues
    /\ LocalStep(h, "done", Failed, <<"should_send_comment", "send_issue_comment">>,
                 {"send_issue_comment"})

\* The result record has gone back to the transport; the invocation is over
\* and the handler waits for the next event.
Finish(h) ==
    /\ pc[h] = "done"
    /\ Enter(h, NoIssue, "unknown", FALSE, {}, NoOutcome)
    /\ pc' = [pc EXCEPT ![h] = "idle"]

\* ------------------------------------------------------- specifications
\* One invocation at a time: events are handled one after another.
Next ==
    \/ Receive(1)
    \/ Redeliver(1)
    \/ RejectPayload(1)
    \/ InsertOpened(1)
    \/ InsertOpenedDuplicate(1)
    \/ GetExisting(1)
    \/ UpdateExisting(1)
    \/ InsertMissing(1)
    \/ GetFails(1)
    \/ InsertFails(1)
    \/ UpdateFails(1)
    \/ SearchOk(1)
    \/ SearchRaises(1)
    \/ CommentUnbound(1)
    \/ CommentDeclined(1)
    \/ CommentSent(1)
    \/ ShouldSendRaises(1)
    \/ SendRaises(1)
    \/ Finish(1)

Spec == Init /\ [][Next]_vars

\* Two invocations at once, one event each, over a table that holds nothing
\* or one stored issue; the table runs each get, insert and update atomically
\* and no collaborator fails.
ConcTables ==
    {{}} \cup {{r} : r \in {from_webhook_payload(p) : p \in {q \in ConcPayloads : q.issue.id = 101}}}

InitConc ==
    /\ table \in ConcTables
    /\ table0 = table
    /\ pc = [h \in Handlers |-> "idle"]
    /\ issue = [h \in Handlers |-> NoIssue]
    /\ action = [h \in Handlers |-> "unknown"]
    /\ before = [h \in Handlers |-> {}]
    /\ existing_issue = [h \in Handlers |-> {}]
    /\ changed_fields = [h \in Handlers |-> EmptyMap]
    /\ should_reply = [h \in Handlers |-> FALSE]
    /\ saved = [h \in Handlers |-> FALSE]
    /\ similar_issues = [h \in Handlers |-> "unbound"]
    /\ calls = [h \in Handlers |-> <<>>]
    /\ raised = [h \in Handlers |-> {}]
    /\ outcome = [h \in Handlers |-> NoOutcome]
    /\ redelivered = [h \in Handlers |-> FALSE]
    /\ seen = [id \in IssueIds |-> "none"]

Arrive(h) ==
    /\ pc[h] = "idle"
    /\ \E p \in ConcPayloads :
        /\ ~Malformed(p)
        /\ Enter(h, from_webhook_payload(p), p.action, FALSE, {}, NoOutcome)
    /\ pc' = [pc EXCEPT ![h] = "save"]

NextConc ==
    \E h \in Handlers :
        \/ Arrive(h)
        \/ InsertOpened(h)
        \/ InsertOpenedDuplicate(h)
        \/ GetExisting(h)
        \/ UpdateExisting(h)
        \/ InsertMissing(h)
        \/ InsertMissingDuplicate(h)
        \/ SearchOk(h)
        \/ CommentDeclined(h)
        \/ CommentSent(h)

SpecConc == InitConc /\ [][NextConc]_vars

\* ---------------------------------------------- save_issue_to_database, whole
\* Lines 94-144 run in one piece on table t: the table it leaves, whether it
\* returned (ok) and what it returned (reply).
SaveResult(t, i, a) ==
    IF a = "opened"
    THEN IF HasKey(t, i.github_issue_id)
         THEN [table |-> t, ok |-> FALSE, reply |-> FALSE]
         ELSE [table |-> TableInsert(t, i), ok |-> TRUE, reply |-> OpenedShouldReply(i)]
    ELSE LET found == TableGet(t, i.github_issue_id)
             m == IF found # {} THEN UpdateArgument(TheRow(found), i) ELSE EmptyMap
         IN [table |-> IF found = {} THEN TableInsert(t, i)
                        ELSE IF DOMAIN m # {} THEN TableUpdate(t, m, i.github_issue_id)
                        ELSE t,
             ok |-> TRUE,
             reply |-> UpdateShouldReply(found, i)]

\* ------------------------------------------------------------------ claims
Stored(h) == TableGet(table, issue[h].github_issue_id)
Made(h, op) == \E k \in 1..Len(calls[h]) : calls[h][k] = op
MadeNext(h, op) == \E k \in 1..Len(calls'[h]) : calls'[h][k] = op
SameUnprotected(r, i) == \A f \in Fields \ PROTECTED_FIELDS : r[f] = i[f]

\* C1: on the update path with the record found, should_reply is true exactly
\* when the reply label is among the incoming labels and was not among the
\* labels stored before the event.
C1_UpdateReplyIffLabelAdded ==
    \A h \in Handlers :
        (saved[h] /\ action[h] # "opened" /\ before[h] # {})
        => (should_reply[h] <=> (HasReplyLabel(issue[h].labels)
                                 /\ ~HasReplyLabel(TheRow(before[h]).labels)))

C1_Witness ==
    \E h \in Handlers :
        /\ saved[h] /\ action[h] # "opened" /\ before[h] # {}
        /\ should_reply[h]
        /\ TheRow(before[h]).labels # <<>>

\* C2: when the similarity search raises after a save that asked for a reply,
\* the handler still returns status success.
C2_SearchFailureStillSuccess ==
    \A h \in Handlers :
        (pc[h] = "done" /\ saved[h] /\ should_reply[h] /\ "search" \in raised[h])
        => outcome[h].status = "success"

\* C3: an event that carries the reply label, for an issue whose stored record
\* already carried it, returns should_reply = false whatever its action.
C3_NoRetriggerWhileLabelStays ==
    \A h \in Handlers :
        (saved[h] /\ before[h] # {}
         /\ HasReplyLabel(TheRow(before[h]).labels) /\ HasReplyLabel(issue[h].labels))
        => ~should_reply[h]

C3_Witness ==
    \E h \in Handlers :
        /\ pc[h] = "done" /\ saved[h] /\ before[h] # {}
        /\ HasReplyLabel(TheRow(before[h]).labels) /\ HasReplyLabel(issue[h].labels)
        /\ TheRow(before[h]).title # issue[h].title

\* C4: an 'opened' event for an id the table did not hold leaves the table
\* holding exactly the mapped issue under that id and returns whether the
\* reply label is among its labels.
C4_FirstOpenedStoresAndDecides ==
    \A h \in Handlers :
        (saved[h] /\ action[h] = "opened" /\ before[h] = {})
        => /\ Stored(h) = {issue[h]}
           /\ should_reply[h] <=> HasReplyLabel(issue[h].labels)

C4_Witness ==
    \E h \in Handlers :
        /\ saved[h] /\ action[h] = "opened" /\ before[h] = {}
        /\ should_reply[h]
        /\ Cardinality(table) = 2

\* C5: an 'opened' event for an id the table already holds is handled as an
\* update of the stored record, not as a failure.
C5_RepeatedOpenedIsUpdate ==
    \A h \in Handlers :
        (pc[h] = "done" /\ action[h] = "opened" /\ before[h] # {}
         /\ "table_io" \notin raised[h])
        => /\ saved[h]
           /\ Cardinality(Stored(h)) = 1
           /\ SameUnprotected(TheRow(Stored(h)), issue[h])

\* C6: the second delivery of the same update event changes nothing in the
\* table, issues no insert and no update, and returns should_reply = false.
C6_RedeliveryIsIdempotent ==
    [][\A h \in Handlers :
         (redelivered'[h] /\ action'[h] # "opened")
         => /\ table' = table
            /\ ~MadeNext(h, "insert") /\ ~MadeNext(h, "update")
            /\ saved'[h] => ~should_reply'[h]]_vars

C6_Witness ==
    \E h \in Handlers :
        /\ redelivered[h] /\ action[h] # "opened"
        /\ pc[h] = "done" /\ saved[h]
        /\ HasReplyLabel(issue[h].labels)

\* C7: when a table call fails the handler returns the error outcome, and the
\* search and comment collaborators are called only after save has returned.
C7_PersistenceFailureStopsEvent ==
    \A h \in Handlers :
        /\ (raised[h] \cap {"table_io", "duplicate"} # {})
           => (pc[h] = "done" /\ outcome[h].status = "error" /\ ~saved[h])
        /\ (Made(h, "search") \/ Made(h, "should_send_comment") \/ Made(h, "send_issue_comment"))
           => saved[h]

C7_Witness ==
    \E h \in Handlers :
        /\ "table_io" \in raised[h]
        /\ Made(h, "update")
        /\ HasReplyLabel(issue[h].labels)

\* C8: when should_send_comment or send_issue_comment raises after the save,
\* the handler still returns status success.
C8_CommentFailureStillSuccess ==
    \A h \in Handlers :
        (pc[h] = "done" /\ saved[h]
         /\ raised[h] \cap {"should_send_comment", "send_issue_comment"} # {})
        => outcome[h].status = "success"

\* C9: two invocations at once for one issue id give the results and the final
\* table of the two events handled one after the other, in one order or the other.
SerialOutcome(first, second) ==
    LET r1 == SaveResult(table0, issue[first], action[first])
        r2 == SaveResult(r1.table, issue[second], action[second])
    IN /\ table = r2.table
       /\ saved[first] = r1.ok /\ (r1.ok => should_reply[first] = r1.reply)
       /\ saved[second] = r2.ok /\ (r2.ok => should_reply[second] = r2.reply)

C9_ConcurrentIsSerial ==
    (pc[1] = "done" /\ pc[2] = "done"
     /\ issue[1].github_issue_id = issue[2].github_issue_id)
    => (SerialOutcome(1, 2) \/ SerialOutcome(2, 1))

\* C10: no step changes a protected field of a stored record, and the map
\* handed to table.update holds no protected field.
C10_ProtectedFieldsKept ==
    [][/\ \A r \in table : \E s \in table' : \A f \in PROTECTED_FIELDS : s[f] = r[f]
       /\ \A h \in Handlers : DOMAIN changed_fields'[h] \cap PROTECTED_FIELDS = {}]_vars

C10_Witness ==
    \E h \in Handlers :
        /\ Made(h, "update") /\ saved[h] /\ before[h] # {}
        /\ issue[h].created_at # TheRow(before[h]).created_at
        /\ TheRow(Stored(h)).created_at = TheRow(before[h]).created_at

\* C11: a payload the mapper rejects gives the error outcome; no table call,
\* no search and no comment call is made and the table stays as it was.
C11_RejectedPayloadTouchesNothing ==
    [][\A h \in Handlers :
         "mapper" \in raised'[h]
         => /\ table' = table
            /\ calls'[h] = <<>>
            /\ pc'[h] = "done" /\ outcome'[h].status = "error"]_vars

C11_Witness ==
    \E h \in Handlers :
        /\ "mapper" \in raised[h] /\ pc[h] = "done"
        /\ table # {}

\* C12: when save returns should_reply = false the handler returns the
\* skipped result at once; search and the comment calls are not made.
C12_NoReplyMeansSkipped ==
    \A h \in Handlers :
        (saved[h] /\ ~should_reply[h])
        => /\ pc[h] = "done" /\ outcome[h] = Skipped
           /\ ~Made(h, "search")
           /\ ~Made(h, "should_send_comment") /\ ~Made(h, "send_issue_comment")

C12_Witness ==
    \E h \in Handlers :
        /\ saved[h] /\ ~should_reply[h] /\ pc[h] = "done"
        /\ HasReplyLabel(issue[h].labels) /\ Made(h, "update")

\* C14: an invocation that has ended has returned one result record whose
\* status is success, skipped or error, whatever was raised on the way; one
\* that has not ended has returned none.
C14_AlwaysOneResult ==
    \A h \in Handlers :
        /\ pc[h] = "done" => outcome[h].status \in {"success", "skipped", "error"}
        /\ pc[h] # "done" => outcome[h] = NoOutcome

C14_Witness ==
    \E h \in Handlers :
        /\ pc[h] = "done" /\ "table_io" \in raised[h]
        /\ Made(h, "get")

\* C15: on a non-creation event whose id is found, table.update is called
\* exactly when some non-protected field differs, with exactly the differing
\* fields and their incoming values (also when the call then fails); otherwise
\* no write is made and the stored row stays as it was.
Differing(old, new) == {f \in Fields \ PROTECTED_FIELDS : old[f] # new[f]}

C15_UpdateIffDiffNonEmpty ==
    \A h \in Handlers :
        ((saved[h] \/ Made(h, "update")) /\ action[h] # "opened" /\ before[h] # {})
        => LET d == Differing(TheRow(before[h]), issue[h])
           IN /\ Made(h, "update") <=> d # {}
              /\ DOMAIN changed_fields[h] = d
              /\ \A f \in d : changed_fields[h][f] = issue[h][f]
              /\ ~Made(h, "insert")
              /\ d = {} => Stored(h) = before[h]
              /\ saved[h] => Stored(h) = {Patch(TheRow(before[h]), changed_fields[h])}

C15_Witness ==
    \E h \in Handlers :
        /\ saved[h] /\ action[h] # "opened" /\ before[h] # {}
        /\ ~Made(h, "update")
        /\ TheRow(before[h]).created_at # issue[h].created_at

\* C16: a non-creation event whose id is not found inserts the incoming issue
\* and returns whether the reply label is among its labels.
C16_LateCreation ==
    \A h \in Handlers :
        (saved[h] /\ action[h] # "opened" /\ before[h] = {})
        => /\ Stored(h) = {issue[h]}
           /\ Made(h, "insert") /\ ~Made(h, "update")
           /\ should_reply[h] <=> HasReplyLabel(issue[h].labels)

C16_Witness ==
    \E h \in Handlers :
        /\ saved[h] /\ action[h] # "opened" /\ before[h] = {}
        /\ should_reply[h] /\ pc[h] = "done"

\* C17: once an event's save has returned, the stored row for its id equals
\* the incoming issue on every non-protected field.
C17_StoredFollowsLatestEvent ==
    \A h \in Handlers :
        saved[h] => /\ Cardinality(Stored(h)) = 1
                    /\ SameUnprotected(TheRow(Stored(h)), issue[h])

C17_Witness ==
    \E h \in Handlers :
        /\ saved[h] /\ Made(h, "update")
        /\ Cardinality(DOMAIN changed_fields[h]) = 1
        /\ "labels" \in DOMAIN changed_fields[h]

\* C18: an event makes at most one insert or update call, and at every point
\* of it the stored row is either the row found on arrival or that row with
\* the whole diff applied.
Mutations(h) == {k \in 1..Len(calls[h]) : calls[h][k] \in {"insert", "update"}}

C18_OneWritePerEvent ==
    \A h \in Handlers :
        issue[h] # NoIssue
        => /\ Cardinality(Mutations(h)) <= 1
           /\ \/ Stored(h) = before[h]
              \/ before[h] = {} /\ Stored(h) = {issue[h]}
              \/ /\ before[h] # {}
                 /\ Stored(h) = {Patch(TheRow(before[h]),
                                       diff_and_get_changed_fields(TheRow(before[h]), issue[h]))}

C18_Witness ==
    \E h \in Handlers :
        /\ "table_io" \in raised[h] /\ Made(h, "update")
        /\ Cardinality(Differing(TheRow(before[h]), issue[h])) = 2
        /\ Stored(h) = before[h]

\* C19: an event touches only the row of its own issue id: the rows of ids no
\* event in hand names are those the table started with, and two events for
\* different ids handled at once give, for each issue, the results and the
\* rows of handling them one after the other in either order.
C19_OtherIssuesUntouched ==
    /\ \A id \in IssueIds :
        (\A h \in Handlers : issue[h].github_issue_id # id)
        => TableGet(table, id) = TableGet(table0, id)
    /\ (pc[1] = "done" /\ pc[2] = "done"
        /\ issue[1].github_issue_id # issue[2].github_issue_id)
       => (SerialOutcome(1, 2) /\ SerialOutcome(2, 1))

C19_Witness ==
    /\ pc[1] = "done" /\ pc[2] = "done"
    /\ issue[1].github_issue_id # issue[2].github_issue_id
    /\ Made(1, "update") /\ Made(2, "insert")
    /\ Cardinality(table) = 2

\* C13: of the events handled for one issue id, those that return
\* should_reply = true are exactly those that carry the reply label when the
\* event before them for that id did not (or when there was none); events cut
\* short by a table I/O error are left out of the sequence.
C13_ReplyExactlyOnTransition ==
    \A h \in Handlers :
        (pc[h] = "done" /\ issue[h] # NoIssue /\ "table_io" \notin raised[h])
        => ((saved[h] /\ should_reply[h])
            <=> (HasReplyLabel(issue[h].labels)
                 /\ seen[issue[h].github_issue_id] # "present"))

====
